---- MODULE Spec2Model ----
(***************************************************************************)
(* State-machine model of HTTPModule (src/src/module.ts): the registry of  *)
(* HTTP services, the @Init step that derives the ordered assignee list    *)
(* and the cached sender, and the incoming() pipeline (normalize,          *)
(* dispatch, refine, CORS, send) with its error channel.                   *)
(***************************************************************************)
EXTENDS Integers, Sequences, FiniteSets, TLC

VARIABLES registry, phase, _httpServices, _sender, rq

vars == <<registry, phase, _httpServices, _sender, rq>>

(***************************************************************************)
(* Bounds of the model.                                                    *)
(***************************************************************************)
\* longest registry the ordering specification draws
MaxEntries == 6
\* longest registry the pipeline specification draws
MaxServices == 3

(***************************************************************************)
(* Values.                                                                 *)
(***************************************************************************)
UNDEF == "undefined"

PathA == "/users/42"
PathB == "/admin"
Paths == {PathA, PathB}

\* A matcher as the module sees it: null, a leaf (glob string, RegExp or
\* predicate function, each characterised by the paths it accepts) or an
\* array of leaves.
NoMatcher == [type |-> "null", accepts |-> {}, items |-> <<>>]
Leaf(type, accepts) == [type |-> type, accepts |-> accepts, items |-> <<>>]
ArrayOf(items) == [type |-> "array", accepts |-> {}, items |-> items]
MatchA == Leaf("string", {PathA})
MatchB == Leaf("regexp", {PathB})

\* An optional number (HttpServiceOptions.priority).
NoPriority == [def |-> FALSE, val |-> 0]
Priority(n) == [def |-> TRUE, val |-> n]

(***************************************************************************)
(* matches(path, matcher): module.ts 65-71.                                *)
(***************************************************************************)
RECURSIVE matches(_, _)
matches(path, matcher) ==
    IF matcher.type = "null" THEN TRUE
    ELSE IF matcher.type = "array"
         THEN \E k \in 1..Len(matcher.items) : matches(path, matcher.items[k])
    ELSE path \in matcher.accepts

(***************************************************************************)
(* The comparator handed to Array.prototype.sort: module.ts 53-58.         *)
(* a.priotity === b.priotity and a.priotity > b.priotity follow the        *)
(* language: undefined === undefined, and any relational comparison with   *)
(* undefined is false.                                                     *)
(***************************************************************************)
StrictEquals(p, q) == p.def = q.def /\ (p.def => p.val = q.val)

GreaterThan(p, q) == p.def /\ q.def /\ p.val > q.val

SortCompare(a, b) ==
    IF a.matcher.type = "null" /\ b.matcher.type # "null" THEN -1
    ELSE IF a.matcher.type # "null" /\ b.matcher.type = "null" THEN 1
    ELSE IF StrictEquals(a.priotity, b.priotity) THEN 0
    ELSE IF GreaterThan(a.priotity, b.priotity) THEN -1 ELSE 1

(***************************************************************************)
(* Array.prototype.sort as the runtime executes it for arrays shorter than *)
(* 64 elements: one run is counted (and reversed when strictly             *)
(* descending), the rest is placed by binary insertion.  With a consistent *)
(* comparator this is the stable sort; with an inconsistent one the result *)
(* is whatever these comparisons produce.  Indices are 1-based here.       *)
(***************************************************************************)
RECURSIVE RunLength(_, _, _)
RunLength(w, idx, isDescending) ==
    IF idx > Len(w) THEN idx - 1
    ELSE LET order == SortCompare(w[idx], w[idx - 1])
         IN  IF (isDescending /\ order >= 0) \/ (~isDescending /\ order < 0)
             THEN idx - 1
             ELSE RunLength(w, idx + 1, isDescending)

ReverseRange(w, n) ==
    [k \in 1..Len(w) |-> IF k <= n THEN w[n + 1 - k] ELSE w[k]]

\* <<array after the run is made ascending, run length>>
CountAndMakeRun(w) ==
    IF Len(w) < 2 THEN <<w, Len(w)>>
    ELSE LET isDescending == SortCompare(w[2], w[1]) < 0
             n == RunLength(w, 3, isDescending)
         IN  <<IF isDescending THEN ReverseRange(w, n) ELSE w, n>>

\* insertion point of pivot in w[left+1 .. right] (0-based left, right)
RECURSIVE InsertionPoint(_, _, _, _)
InsertionPoint(w, pivot, left, right) ==
    IF left >= right THEN left
    ELSE LET mid == left + ((right - left) \div 2)
         IN  IF SortCompare(pivot, w[mid + 1]) < 0
             THEN InsertionPoint(w, pivot, left, mid)
             ELSE InsertionPoint(w, pivot, mid + 1, right)

\* w[start+1] moved to 0-based position left, the elements between shifted
MoveTo(w, start, left) ==
    [k \in 1..Len(w) |->
        IF k = left + 1 THEN w[start + 1]
        ELSE IF k > left + 1 /\ k <= start + 1 THEN w[k - 1]
        ELSE w[k]]

RECURSIVE BinaryInsertionSort(_, _)
BinaryInsertionSort(w, start) ==
    IF start >= Len(w) THEN w
    ELSE LET left == InsertionPoint(w, w[start + 1], 0, start)
         IN  BinaryInsertionSort(MoveTo(w, start, left), start + 1)

ArraySort(w) ==
    LET run == CountAndMakeRun(w)
    IN  BinaryInsertionSort(run[1], run[2])

(***************************************************************************)
(* Canonical values: types.ts 74-91 and errors.ts.                         *)
(***************************************************************************)
EmptyMap == [x \in {} |-> ""]

Put(map, key, value) ==
    [x \in DOMAIN map \cup {key} |-> IF x = key THEN value ELSE map[x]]

\* HTTPNormalizedResponse; an absent field is UNDEF (headers: the empty map)
Response(status, body) == [status |-> status, body |-> body, headers |-> EmptyMap]
NoResponse == [status |-> 0, body |-> UNDEF, headers |-> EmptyMap]

\* HTTPError carries a response; every other failure is a plain Error
HTTPError(response) ==
    [name |-> "HTTPError", response |-> response, message |-> response.body]
Error(message) == [name |-> "Error", response |-> NoResponse, message |-> message]
NoError == [name |-> "none", response |-> NoResponse, message |-> ""]

HTTPUnauthorizedError == HTTPError(Response(401, "Unauthorized"))
HTTPNotFoundError == HTTPError(Response(404, "Not Found"))
HTTPInternalServerError == HTTPError(Response(500, "Internal Server Error"))
Boom == Error("boom")
HandlerNotFound == Error("No handler found for request")
NoSenderFound == Error("No sender found")

\* What one invocation of a declared method does: it returns nothing,
\* returns a value, or throws.
Void == [kind |-> "void", value |-> EmptyMap, error |-> NoError]
Return(value) == [kind |-> "return", value |-> value, error |-> NoError]
Throw(error) == [kind |-> "throw", value |-> EmptyMap, error |-> error]

(***************************************************************************)
(* The registry: the classes decorated with @HTTP, in registration order,  *)
(* each seen through its shadow (decorators.ts).                           *)
(*   name          the class                                               *)
(*   http_matcher  @HTTPMatcher on the class (NoMatcher when absent)       *)
(*   priority      @HTTP({priority})                                       *)
(*   sender        the method decorated with @Send, if any                 *)
(*   parsers       methods registered under REQUEST_PARSER; async for the  *)
(*                 wrappers @BodyParser, @CookieParser, @SearchParser,     *)
(*                 @HeadersParser, @ContextProvider, @SessionProvider      *)
(*   refiners      methods registered under RESPONSE_REFINER               *)
(*   http_cors     @CORS on the class                                      *)
(*   cors          members registered under CORS                           *)
(* A method is its field name, its own @HTTPMatcher and the outcomes its   *)
(* body can have.                                                          *)
(***************************************************************************)
Method(field, async, m, outcomes) ==
    [field |-> field, async |-> async, http_matcher |-> m, outcomes |-> outcomes]

NoMethod == Method("", FALSE, NoMatcher, {})

NoCors == [declared |-> FALSE, options |-> EmptyMap]
ClassCors(options) == [declared |-> TRUE, options |-> options]

Service(name, m, p, s, ps, rs, c, cs) ==
    [name |-> name, http_matcher |-> m, priority |-> p, sender |-> s, parsers |-> ps,
     refiners |-> rs, http_cors |-> c, cors |-> cs]

\* Shadow.getMethod(service, HTTP_FIELD.SENDER): a method name or nothing
HasSender(service) == service.sender.field # ""

\* the entry _collectHttpServices builds for the service registered i-th
AssigneeCacheEntry(reg, i) ==
    [service |-> i,
     matcher |-> reg[i].http_matcher,
     priotity |-> reg[i].priority]

\* a discovery that looks at the matcher-less services only
SenderDiscoveredUnscoped(reg) ==
    LET withSend == {i \in 1..Len(reg) :
                        HasSender(reg[i]) /\ reg[i].http_matcher.type = "null"}
    IN  IF withSend = {} THEN 0
        ELSE CHOOSE i \in withSend : \A k \in withSend : i <= k

\* Sender discovery inside the map callback (module.ts 38-46): the callback
\* visits the services in registration order, before the sort; 0 is
\* "no sender".
SenderDiscovered(reg) ==
    LET withSend == {i \in 1..Len(reg) : HasSender(reg[i])}
    IN  IF withSend = {} THEN 0
        ELSE CHOOSE i \in withSend : \A k \in withSend : i <= k

(***************************************************************************)
(* @Init _collectHttpServices: module.ts 30-59.                            *)
(***************************************************************************)
CollectHttpServices ==
    /\ phase = "constructed"
    /\ _httpServices' =
           ArraySort([i \in 1..Len(registry) |-> AssigneeCacheEntry(registry, i)])
    /\ _sender' = IF _sender = 0 THEN SenderDiscovered(registry) ELSE _sender
    /\ phase' = "ready"
    /\ UNCHANGED <<registry, rq>>

(***************************************************************************)
(* Ordering specification: registries of up to MaxEntries services that    *)
(* declare only a matcher and a priority.                                  *)
(***************************************************************************)
SeqsUpTo(S, n) == UNION {[1..k -> S] : k \in 0..n}

PlainServices ==
    {Service("Plain", m, p, NoMethod, <<>>, <<>>, NoCors, <<>>) :
        m \in {NoMatcher, MatchA}, p \in {NoPriority, Priority(1), Priority(2)}}

InitSort ==
    /\ registry \in SeqsUpTo(PlainServices, MaxEntries)
    /\ phase = "constructed"
    /\ _httpServices = <<>>
    /\ _sender = 0
    /\ rq = <<>>

NextSort == CollectHttpServices

SpecSort == InitSort /\ [][NextSort]_vars

(***************************************************************************)
(* One incoming() call.  rq[s] is the call running in slot s:              *)
(*   pc                 where the call stands                              *)
(*   handlerService, request   the arguments of incoming()                 *)
(*   normalizedRequest, path, usedAssignees   the locals of _incoming()    *)
(*   i, j               positions of the loops over services and methods   *)
(*   normalizedResponse the running response                               *)
(*   cors               the local of _collectCorsOptions()                 *)
(*   err                the HTTPError caught by incoming()                 *)
(*   result             what incoming() returned or threw                  *)
(*   calls              the invocations made through ServiceRegistery      *)
(***************************************************************************)
\* _emptyRequest(request): module.ts 73-83.  context and session are not
\* set; reading them yields undefined.
_emptyRequest(request) ==
    [originalRequest |-> request,
     body |-> UNDEF,
     searchParams |-> EmptyMap,
     headers |-> EmptyMap,
     cookies |-> EmptyMap,
     method |-> "",
     path |-> "",
     context |-> UNDEF,
     session |-> UNDEF]

\* the spread with its operands exchanged, { ...newReq, ...normalizedRequest }
SpreadReversed(req, newReq) ==
    [f \in DOMAIN req \cup DOMAIN newReq |->
        IF f \in DOMAIN req THEN req[f] ELSE newReq[f]]

\* { ...normalizedRequest, ...newReq }: module.ts 125
Spread(req, newReq) ==
    [f \in DOMAIN req \cup DOMAIN newReq |->
        IF f \in DOMAIN newReq THEN newReq[f] ELSE req[f]]

NoResult == [kind |-> "none", value |-> NoResponse, error |-> NoError]
Returned(value) == [kind |-> "returned", value |-> value, error |-> NoError]
Failed(error) == [kind |-> "failed", value |-> NoResponse, error |-> error]

\* cors is undefined, or an object: its fields (options) and which object it
\* is (object): 0 for one made by a `{}` of this call, i for the policy
\* @CORS left in the shadow of the service registered i-th
NoPolicy == [set |-> FALSE, options |-> EmptyMap, object |-> 0]

IdleCall ==
    [pc |-> "idle",
     handlerService |-> "",
     request |-> "",
     normalizedRequest |-> _emptyRequest(""),
     path |-> UNDEF,
     usedAssignees |-> <<>>,
     i |-> 0,
     j |-> 0,
     normalizedResponse |-> NoResponse,
     cors |-> NoPolicy,
     err |-> NoError,
     result |-> NoResult,
     calls |-> <<>>]

\* one invocation through ServiceRegistery.invoke / resolve
Call(role, service, field, request, response, outcome, async) ==
    [role |-> role, service |-> service, field |-> field, request |-> request,
     response |-> response, outcome |-> outcome, async |-> async, args |-> <<>>]

\* the transport response a sender builds from what it is given
SenderOutput(request, response) == [request |-> request, response |-> response]

\* A failure leaving _incoming(): the catch of incoming(), module.ts 91-94.
\* An HTTPError is kept for send(); anything else is rethrown.
Raise(call, error) ==
    IF error.name = "HTTPError"
    THEN [call EXCEPT !.pc = "catch", !.err = error]
    ELSE [call EXCEPT !.pc = "failed", !.result = Failed(error)]

(***************************************************************************)
(* incoming(handlerService, request): module.ts 88-90 and 97-104.          *)
(***************************************************************************)
RawRequests == {"GET /users/42"}

\* an entry that looks for the sender before anything else
IncomingSenderFirst(s, handlerService, request) ==
    /\ phase = "ready"
    /\ rq[s].pc = "idle"
    /\ rq' = [rq EXCEPT ![s] =
                 IF _sender = 0
                 THEN [IdleCall EXCEPT !.pc = "failed",
                                       !.handlerService = handlerService,
                                       !.request = request,
                                       !.result = Failed(NoSenderFound)]
                 ELSE [IdleCall EXCEPT !.pc = "normalize",
                                       !.handlerService = handlerService,
                                       !.request = request,
                                       !.normalizedRequest = _emptyRequest(request),
                                       !.i = 1]]
    /\ UNCHANGED <<registry, phase, _httpServices, _sender>>

Incoming(s, handlerService, request) ==
    /\ phase = "ready"
    /\ rq[s].pc = "idle"
    /\ rq' = [rq EXCEPT ![s] =
                 [IdleCall EXCEPT !.pc = "normalize",
                                  !.handlerService = handlerService,
                                  !.request = request,
                                  !.normalizedRequest = _emptyRequest(request),
                                  !.path = UNDEF,
                                  !.usedAssignees = <<>>,
                                  !.i = 1,
                                  !.j = 0]]
    /\ UNCHANGED <<registry, phase, _httpServices, _sender>>

(***************************************************************************)
(* The head of the loop over this._httpServices: module.ts 106-110.        *)
(***************************************************************************)
NextAssignee(s) ==
    LET call == rq[s]
    IN  /\ call.pc = "normalize"
        /\ call.j = 0
        /\ rq' = [rq EXCEPT ![s] =
               IF call.i > Len(_httpServices)
               THEN [call EXCEPT !.pc = "dispatch"]
               ELSE IF call.path # UNDEF
                       /\ ~matches(call.path, _httpServices[call.i].matcher)
               THEN [call EXCEPT !.i = call.i + 1]
               ELSE [call EXCEPT
                        !.usedAssignees = Append(call.usedAssignees, _httpServices[call.i]),
                        !.j = 1]]
        /\ UNCHANGED <<registry, phase, _httpServices, _sender>>

(***************************************************************************)
(* One turn of the loop over the assignee's REQUEST_PARSER methods:        *)
(* module.ts 112-127.  The invocation is not awaited: an async method      *)
(* hands back a promise, which has no own path and spreads to nothing,     *)
(* and whose rejection reaches nobody.                                     *)
(***************************************************************************)
ParserResult(call, method, outcome) ==
    LET made == [call EXCEPT
                    !.calls = Append(call.calls,
                        Call("parse", _httpServices[call.i].service, method.field,
                             call.normalizedRequest, NoResponse, outcome, method.async)),
                    !.j = call.j + 1]
    IN  IF method.async THEN made
        ELSE IF outcome.kind = "throw" THEN Raise(made, outcome.error)
        ELSE IF outcome.kind = "void" THEN made
        ELSE [made EXCEPT
                 !.path = IF "path" \in DOMAIN outcome.value
                          THEN outcome.value.path ELSE call.path,
                 !.normalizedRequest = Spread(call.normalizedRequest, outcome.value)]

NextParser(s) ==
    LET call == rq[s]
        methods == registry[_httpServices[call.i].service].parsers
    IN  /\ call.pc = "normalize"
        /\ call.j >= 1
        /\ IF call.j > Len(methods)
           THEN rq' = [rq EXCEPT ![s] = [call EXCEPT !.i = call.i + 1, !.j = 0]]
           ELSE IF call.path # UNDEF
                   /\ ~matches(call.normalizedRequest.path, methods[call.j].http_matcher)
           THEN rq' = [rq EXCEPT ![s] = [call EXCEPT !.j = call.j + 1]]
           ELSE \E outcome \in methods[call.j].outcomes :
                    rq' = [rq EXCEPT ![s] = ParserResult(call, methods[call.j], outcome)]
        /\ UNCHANGED <<registry, phase, _httpServices, _sender>>

(***************************************************************************)
(* Handler lookup and invocation: module.ts 132-156.  Shadow.getFields of  *)
(* the handler service lists the fields @Handler declared, in declaration  *)
(* order; the first whose (http_method, http_path) equals the request's    *)
(* is invoked and awaited.                                                 *)
(***************************************************************************)
HandlerField(field, method, path, outcomes) ==
    [field |-> field, http_method |-> method, http_path |-> path, outcomes |-> outcomes]

Matching(fields, req) ==
    {k \in 1..Len(fields) :
        fields[k].http_method = req.method /\ fields[k].http_path = req.path}

\* the lookup without its break: the last matching field wins
HandlerPropLast(fields, req) ==
    IF Matching(fields, req) = {} THEN 0
    ELSE CHOOSE k \in Matching(fields, req) : \A m \in Matching(fields, req) : k >= m

\* the position of handlerProp, 0 when the loop ends without one
HandlerProp(fields, req) ==
    IF Matching(fields, req) = {} THEN 0
    ELSE CHOOSE k \in Matching(fields, req) : \A m \in Matching(fields, req) : k <= m

(***************************************************************************)
(* The arguments of the handler: module.ts 150-155 and _getParam, module.ts *)
(* 208-225.  A JavaScript value is kept with its type, so that undefined,  *)
(* the empty string and an object are told apart.                          *)
(***************************************************************************)
Undefined == [kind |-> "undefined"]
String(s) == IF s = UNDEF THEN Undefined ELSE [kind |-> "string", string |-> s]
Object(o) == [kind |-> "object", object |-> o]

\* what `value || arg` tests
Truthy(v) == v.kind # "undefined" /\ ~(v.kind = "string" /\ v.string = "")

_getParam(request, type) ==
    CASE type = "body" -> String(request.body)
      [] type = "req" -> Object(request.originalRequest)
      [] type = "search_params" -> Object(request.searchParams)
      [] type = "headers" -> Object(request.headers)
      [] type = "context" -> String(request.context)
      [] type = "session" -> String(request.session)
      [] type = "cookie" -> Object(request.cookies)
      [] OTHER -> Undefined

\* ParamShadow.http_param_type of each parameter of a handler, "" where the
\* parameter is not decorated
Params(field) ==
    CASE field = "getUser" -> <<"body", "headers", "">>
      [] field = "listAdmins" -> <<"", "session">>
      [] OTHER -> <<>>

\* args[i], undefined past the end
ArgAt(args, i) == IF i \in 1..Len(args) THEN args[i] ELSE Undefined

\* Shadow.mapArgs(handlerService, field, args, mapper), with the mapper of
\* module.ts 154: one argument per given argument and per declared parameter
MapArgs(field, args, request) ==
    LET n == IF Len(args) > Len(Params(field)) THEN Len(args) ELSE Len(Params(field))
    IN  [i \in 1..n |->
            LET type == IF i \in 1..Len(Params(field)) THEN Params(field)[i] ELSE ""
                value == _getParam(request, type)
            IN  IF Truthy(value) THEN value ELSE ArgAt(args, i)]

HandlerResult(call, prop, outcome) ==
    LET made == [call EXCEPT
                    !.calls = Append(call.calls,
                        [Call("handle", 0, prop.field, call.normalizedRequest,
                              NoResponse, outcome, FALSE)
                            EXCEPT !.args = MapArgs(prop.field,
                                                    <<Object(call.normalizedRequest)>>,
                                                    call.normalizedRequest)])]
    IN  IF outcome.kind = "throw" THEN Raise(made, outcome.error)
        ELSE [made EXCEPT
                 !.pc = "refine", !.i = 1, !.j = 1,
                 !.normalizedResponse =
                     IF outcome.kind = "void" THEN NoResponse ELSE outcome.value]

\* a refinement whose returned response is not taken over
RefinerResultDropped(call, method, outcome) ==
    [call EXCEPT
        !.calls = Append(call.calls,
            Call("refine", call.usedAssignees[call.i].service, method.field,
                 call.normalizedRequest, call.normalizedResponse,
                 outcome, method.async)),
        !.j = call.j + 1]

(***************************************************************************)
(* One turn of the loops over usedAssignees and their RESPONSE_REFINER     *)
(* methods: module.ts 160-171.  Shadow.getField(httpService, ref) is taken *)
(* to yield the metadata @HTTPMatcher left on the method.                  *)
(***************************************************************************)
RefinerResult(call, method, outcome) ==
    LET made == [call EXCEPT
                    !.calls = Append(call.calls,
                        Call("refine", call.usedAssignees[call.i].service, method.field,
                             call.normalizedRequest, call.normalizedResponse,
                             outcome, method.async)),
                    !.j = call.j + 1]
    IN  IF outcome.kind = "throw" THEN Raise(made, outcome.error)
        ELSE [made EXCEPT
                 !.normalizedResponse =
                     IF outcome.kind = "void" THEN NoResponse ELSE outcome.value]

\* a merge in which an undefined value of o2 replaces the value of o1
mergeCorsOverwrite(o1, o2) ==
    [key \in DOMAIN o1 \cup DOMAIN o2 |->
        IF key \in DOMAIN o2 THEN o2[key] ELSE o1[key]]

(***************************************************************************)
(* _collectCorsOptions: module.ts 230-264, and the headers set from its    *)
(* result: module.ts 175-193.  A policy maps each key it holds to {v}, or  *)
(* to {} when the key is there with the value undefined.                   *)
(***************************************************************************)
mergeCors(o1, o2) ==
    [key \in DOMAIN o1 \cup {k \in DOMAIN o2 : o2[k] # {}} |->
        IF key \in DOMAIN o2 /\ o2[key] # {} THEN o2[key] ELSE o1[key]]

\* cors || {}
OrEmpty(cors) == IF cors.set THEN cors.options ELSE EmptyMap

\* an accumulation that starts in the policy object of the service at hand
AccumulatorShared(cors, service) == IF cors.set THEN cors.object ELSE service

\* the object `cors || {}` hands to mergeCors as o1, which mergeCors writes
\* and returns (module.ts 237-241), in a merge made for a service
Accumulator(cors, service) == IF cors.set THEN cors.object ELSE 0

\* cors = mergeCors(cors || {}, o2): module.ts 246 and 254-259
Merged(cors, service, o2) ==
    LET o1 == Accumulator(cors, service)
        held == IF cors.set \/ o1 = 0 THEN OrEmpty(cors)
                ELSE registry[o1].http_cors.options
    IN  [set |-> TRUE, options |-> mergeCors(held, o2), object |-> o1]

\* the shadows after mergeCors wrote the fields of its o1
Written(reg, cors) ==
    IF cors.object = 0 THEN reg
    ELSE [reg EXCEPT ![cors.object].http_cors.options = cors.options]

\* options.key, undefined ({}) when the key is missing
Option(options, key) == IF key \in DOMAIN options THEN options[key] ELSE {}

The(single) == CHOOSE v \in single : TRUE

RECURSIVE Join(_)
Join(list) ==
    IF Len(list) = 0 THEN ""
    ELSE IF Len(list) = 1 THEN list[1]
    ELSE list[1] \o "," \o Join(Tail(list))

\* list?.join(",") ?? ""
JoinOrEmpty(option) == IF option = {} THEN "" ELSE Join(The(option))

\* Headers.get: null ("") when the header is missing
Get(headers, name) == IF name \in DOMAIN headers THEN headers[name] ELSE ""

\* the six headers.set calls, on the headers of the normalized request
SetCorsHeaders(headers, origin, method, options) ==
    LET maxAge == Option(options, "maxAge")
        allowCredentials == Option(options, "allowCredentials")
        h1 == Put(headers, "Access-Control-Allow-Origin", origin)
        h2 == Put(h1, "Access-Control-Allow-Headers",
                  JoinOrEmpty(Option(options, "allowHeaders")))
        h3 == Put(h2, "Access-Control-Allow-Methods", method)
        h4 == Put(h3, "Access-Control-Expose-Headers",
                  JoinOrEmpty(Option(options, "exposeHeaders")))
        h5 == Put(h4, "Access-Control-Max-Age",
                  ToString(IF maxAge = {} \/ maxAge = {0} THEN 600 ELSE The(maxAge)))
    IN  Put(h5, "Access-Control-Allow-Credentials",
            IF allowCredentials = {TRUE} THEN "true" ELSE "false")

\* the headers set whether or not the request names an origin
CorsAppliedAlways(call) ==
    LET req == call.normalizedRequest
    IN  IF call.cors.set
        THEN [call EXCEPT
                 !.normalizedRequest.headers =
                     SetCorsHeaders(req.headers, Get(req.headers, "Origin"),
                                    req.method, call.cors.options)]
        ELSE call

\* module.ts 175-193, with the collected policy at hand
CorsApplied(call) ==
    LET req == call.normalizedRequest
        origin == Get(req.headers, "Origin")
    IN  IF call.cors.set /\ origin # ""
        THEN [call EXCEPT
                 !.normalizedRequest.headers =
                     SetCorsHeaders(req.headers, origin, req.method, call.cors.options)]
        ELSE call

CorsResult(call, field, outcome) ==
    LET made == [call EXCEPT
                    !.calls = Append(call.calls,
                        Call("cors", call.usedAssignees[call.i].service, field.field,
                             call.normalizedRequest, NoResponse, outcome, field.async)),
                    !.j = call.j + 1]
    IN  IF outcome.kind = "throw" THEN Raise(made, outcome.error)
        ELSE [made EXCEPT
                 !.cors = Merged(call.cors, call.usedAssignees[call.i].service,
                     IF outcome.kind = "void" THEN EmptyMap ELSE outcome.value)]

(***************************************************************************)
(* send(request, response): module.ts 200-206.                             *)
(***************************************************************************)
SendCall(call, request, response, outcome) ==
    [call EXCEPT
        !.calls = Append(call.calls,
            Call("send", _sender, registry[_sender].sender.field, request,
                 response, outcome, FALSE))]

(***************************************************************************)
(* The services and the handler service the pipeline specification draws   *)
(* its registries from.                                                    *)
(***************************************************************************)
\* sets path, or path and method, from the raw request
Router ==
    Service("Router", NoMatcher, NoPriority, NoMethod,
            <<Method("route", FALSE, NoMatcher,
                     {Return([path |-> PathA]),
                      Return([path |-> PathA, method |-> "GET"]),
                      Return([path |-> PathB, method |-> "GET"])})>>,
            <<>>, NoCors, <<>>)

\* a synchronous parser that lets the request pass or refuses it
Guard ==
    Service("Guard", NoMatcher, Priority(1), NoMethod,
            <<Method("authorize", FALSE, NoMatcher,
                     {Void, Throw(HTTPUnauthorizedError), Throw(Boom)})>>,
            <<>>, NoCors, <<>>)

\* a @SessionProvider (async), a refiner and a class-level @CORS, for PathA
\* only
Session ==
    Service("Session", MatchA, Priority(2), NoMethod,
            <<Method("session", TRUE, NoMatcher,
                     {Return([session |-> "alice"]),
                      Throw(HTTPUnauthorizedError), Throw(Boom)})>>,
            <<Method("stamp", FALSE, NoMatcher,
                     {Return(Response(200, "stamped")),
                      Throw(HTTPInternalServerError), Throw(Boom)})>>,
            ClassCors([maxAge |-> {60}]), <<>>)

\* the transport binding: @Send
Transport ==
    Service("Transport", NoMatcher, NoPriority,
            Method("send", FALSE, NoMatcher,
                   {Return(EmptyMap), Throw(HTTPInternalServerError), Throw(Boom)}),
            <<>>, <<>>, NoCors, <<>>)

\* a second @Send, on a service restricted to PathB whose parse method sets
\* the route
AdminTransport ==
    Service("AdminTransport", MatchB, Priority(1),
            Method("sendAdmin", FALSE, NoMatcher, {Return(EmptyMap)}),
            <<Method("locate", FALSE, NoMatcher,
                     {Return([path |-> PathB, method |-> "GET"])})>>,
            <<>>, NoCors, <<>>)

\* @CORS on the class and on a member
CorsPolicy ==
    Service("CorsPolicy", NoMatcher, NoPriority, NoMethod, <<>>, <<>>,
            ClassCors([allowCredentials |-> {FALSE}]),
            <<Method("corsFor", FALSE, NoMatcher,
                     {Return([allowCredentials |-> {TRUE}, maxAge |-> {120}]),
                      Return([allowCredentials |-> {}, exposeHeaders |-> {<<"X-Id">>}]),
                      Void, Throw(HTTPUnauthorizedError), Throw(Boom)})>>)

\* the headers of a cross-origin request
Origin == "https://app.example"
WithOrigin == Put(EmptyMap, "Origin", Origin)

\* three synchronous parsers, the first with its own @HTTPMatcher, for PathA
\* only, the last of which may set the route anew, a refiner for PathA, no
\* @CORS on the class and one on a member that provides nothing or a policy
\* without a defined field
Rewriter ==
    Service("Rewriter", NoMatcher, NoPriority, NoMethod,
            <<Method("scoped", FALSE, MatchA, {Return([context |-> "scoped"])}),
              Method("readHeaders", FALSE, NoMatcher,
                     {Return([headers |-> WithOrigin]), Void}),
              Method("rewrite", FALSE, NoMatcher,
                     {Return([body |-> "B2"]), Return([path |-> PathB]),
                      Return([path |-> PathA, method |-> "GET"])})>>,
            <<Method("tag", FALSE, MatchA, {Return(Response(200, "tagged"))})>>,
            NoCors,
            <<Method("corsIf", FALSE, NoMatcher, {Void, Return([maxAge |-> {}])})>>)

ServiceKinds == {Router, Guard, Session, Transport, AdminTransport, CorsPolicy, Rewriter}

\* a class is registered once
Registries ==
    {reg \in SeqsUpTo(ServiceKinds, MaxServices) :
        \A a, b \in 1..Len(reg) : a # b => reg[a] # reg[b]}

HandlerServices == {"UserController"}

\* Shadow.getFields(handlerService)
HandlerFields(handlerService) ==
    <<HandlerField("getUser", "GET", PathA,
                   {Return(Response(200, "getUser")),
                    Throw(HTTPNotFoundError), Throw(Boom)}),
      HandlerField("listAdmins", "GET", PathB, {Return(Response(200, "listAdmins"))}),
      HandlerField("getUserAgain", "GET", PathA,
                   {Return(Response(200, "getUserAgain"))})>>

Dispatch(s) ==
    LET call == rq[s]
        fields == HandlerFields(call.handlerService)
        handlerProp == HandlerProp(fields, call.normalizedRequest)
    IN  /\ call.pc = "dispatch"
        /\ IF handlerProp = 0
           THEN rq' = [rq EXCEPT ![s] = Raise(call, HandlerNotFound)]
           ELSE \E outcome \in fields[handlerProp].outcomes :
                    rq' = [rq EXCEPT ![s] = HandlerResult(call, fields[handlerProp], outcome)]
        /\ UNCHANGED <<registry, phase, _httpServices, _sender>>

Refine(s) ==
    LET call == rq[s]
        methods == registry[call.usedAssignees[call.i].service].refiners
    IN  /\ call.pc = "refine"
        /\ IF call.i > Len(call.usedAssignees)
           THEN rq' = [rq EXCEPT ![s] = [call EXCEPT !.pc = "cors", !.i = 1, !.j = 0]]
           ELSE IF call.j > Len(methods)
           THEN rq' = [rq EXCEPT ![s] = [call EXCEPT !.i = call.i + 1, !.j = 1]]
           ELSE IF ~matches(call.normalizedRequest.path, methods[call.j].http_matcher)
           THEN rq' = [rq EXCEPT ![s] = [call EXCEPT !.j = call.j + 1]]
           ELSE \E outcome \in methods[call.j].outcomes :
                    rq' = [rq EXCEPT ![s] = RefinerResult(call, methods[call.j], outcome)]
        /\ UNCHANGED <<registry, phase, _httpServices, _sender>>

CollectCors(s) ==
    LET call == rq[s]
        shadow == registry[call.usedAssignees[call.i].service]
    IN  /\ call.pc = "cors"
        /\ IF call.i > Len(call.usedAssignees)
           THEN rq' = [rq EXCEPT ![s] = [CorsApplied(call) EXCEPT !.pc = "send"]]
           ELSE IF call.j = 0
           THEN rq' = [rq EXCEPT ![s] =
                    [call EXCEPT
                        !.cors = IF shadow.http_cors.declared
                                 THEN Merged(call.cors, call.usedAssignees[call.i].service,
                                             shadow.http_cors.options)
                                 ELSE call.cors,
                        !.j = 1]]
           ELSE IF call.j > Len(shadow.cors)
           THEN rq' = [rq EXCEPT ![s] = [call EXCEPT !.i = call.i + 1, !.j = 0]]
           ELSE IF ~matches(call.normalizedRequest.path, shadow.cors[call.j].http_matcher)
           THEN rq' = [rq EXCEPT ![s] = [call EXCEPT !.j = call.j + 1]]
           ELSE \E outcome \in shadow.cors[call.j].outcomes :
                    rq' = [rq EXCEPT ![s] = CorsResult(call, shadow.cors[call.j], outcome)]
        /\ registry' = Written(registry, rq'[s].cors)
        /\ UNCHANGED <<phase, _httpServices, _sender>>

\* return await this.send(normalizedRequest, normalizedResponse): module.ts
\* 197, inside the try of incoming()
Send(s) ==
    LET call == rq[s]
    IN  /\ call.pc = "send"
        /\ IF _sender = 0
           THEN rq' = [rq EXCEPT ![s] = Raise(call, NoSenderFound)]
           ELSE \E outcome \in registry[_sender].sender.outcomes :
                    LET made == SendCall(call, call.normalizedRequest,
                                         call.normalizedResponse, outcome)
                    IN  rq' = [rq EXCEPT ![s] =
                            IF outcome.kind = "throw" THEN Raise(made, outcome.error)
                            ELSE [made EXCEPT
                                     !.pc = "returned",
                                     !.result = Returned(SenderOutput(
                                         call.normalizedRequest, call.normalizedResponse))]]
        /\ UNCHANGED <<registry, phase, _httpServices, _sender>>

\* return this.send(this._emptyRequest(request), err.response): module.ts 92,
\* in the catch of incoming(); what this send throws leaves incoming()
CatchSend(s) ==
    LET call == rq[s]
        request == _emptyRequest(call.request)
        response == call.err.response
    IN  /\ call.pc = "catch"
        /\ IF _sender = 0
           THEN rq' = [rq EXCEPT ![s] =
                    [call EXCEPT !.pc = "failed", !.result = Failed(NoSenderFound)]]
           ELSE \E outcome \in registry[_sender].sender.outcomes :
                    LET made == SendCall(call, request, response, outcome)
                    IN  rq' = [rq EXCEPT ![s] =
                            IF outcome.kind = "throw"
                            THEN [made EXCEPT !.pc = "failed",
                                              !.result = Failed(outcome.error)]
                            ELSE [made EXCEPT
                                     !.pc = "returned",
                                     !.result = Returned(SenderOutput(request, response))]]
        /\ UNCHANGED <<registry, phase, _httpServices, _sender>>

\* the caller of incoming() has its response or its failure
Settle(s) ==
    /\ rq[s].pc \in {"returned", "failed"}
    /\ rq' = [rq EXCEPT ![s] = IdleCall]
    /\ UNCHANGED <<registry, phase, _httpServices, _sender>>

(***************************************************************************)
(* Pipeline specification: one call of incoming() at a time, again and     *)
(* again, over every registry of up to MaxServices services.               *)
(***************************************************************************)
\* the calls of incoming() that can be in progress: one
Slots == {"call"}

Init ==
    /\ registry \in Registries
    /\ phase = "constructed"
    /\ _httpServices = <<>>
    /\ _sender = 0
    /\ rq = [s \in Slots |-> IdleCall]

Step(s) ==
    \/ \E handlerService \in HandlerServices, request \in RawRequests :
           Incoming(s, handlerService, request)
    \/ NextAssignee(s)
    \/ NextParser(s)
    \/ Dispatch(s)
    \/ Refine(s)
    \/ CollectCors(s)
    \/ Send(s)
    \/ CatchSend(s)
    \/ Settle(s)

Next ==
    \/ CollectHttpServices
    \/ \E s \in Slots : Step(s)

Spec == Init /\ [][Next]_vars

(***************************************************************************)
(* Vocabulary of the properties.                                           *)
(***************************************************************************)
CallsOf(call, roles) == {k \in 1..Len(call.calls) : call.calls[k].role \in roles}

Terminal(call) == call.pc \in {"returned", "failed"}

\* the invocation threw (or, for an async method, its promise rejected)
Threw(c) == c.outcome.kind = "throw"
ThrewHTTPError(c) == Threw(c) /\ c.outcome.error.name = "HTTPError"
ThrewOther(c) == Threw(c) /\ c.outcome.error.name # "HTTPError"

SomeSender == \E i \in 1..Len(registry) : HasSender(registry[i])

\* position in the ordered list of the service registered i-th
Position(i) == CHOOSE k \in 1..Len(_httpServices) : _httpServices[k].service = i

SameGroup(a, b) == (a.http_matcher.type = "null") = (b.http_matcher.type = "null")

(***************************************************************************)
(* C1.  With a sender registered: once a normalization operation has       *)
(* raised an HTTPError carrying response R, no handler is invoked for the  *)
(* request, and incoming() ends having invoked the sender with             *)
(* (_emptyRequest(request), R) and returning that sender's output.         *)
(***************************************************************************)
C1_NormalizationErrorIsSent ==
    \A s \in Slots :
        LET call == rq[s]
        IN  \A k \in CallsOf(call, {"parse"}) :
                (SomeSender /\ ThrewHTTPError(call.calls[k])) =>
                    /\ CallsOf(call, {"handle"}) = {}
                    /\ Terminal(call) =>
                          \E m \in CallsOf(call, {"send"}) :
                              /\ call.calls[m].request = _emptyRequest(call.request)
                              /\ call.calls[m].response = call.calls[k].outcome.error.response
                              /\ ~Threw(call.calls[m]) =>
                                    call.result = Returned(SenderOutput(
                                        _emptyRequest(call.request),
                                        call.calls[k].outcome.error.response))

(***************************************************************************)
(* C2.  incoming() never ends by throwing an HTTPError to its caller, and  *)
(* every HTTPError raised by a normalization operation, the handler, a     *)
(* refiner or a CORS provider is followed by a send of the response it     *)
(* carries.  Stated for the calls in which a sender is registered and no   *)
(* send has itself failed: a failing send is the subject of C3.            *)
(***************************************************************************)
C2_NoHTTPErrorEscapes ==
    \A s \in Slots :
        LET call == rq[s]
            sendFailed == \E m \in CallsOf(call, {"send"}) : Threw(call.calls[m])
        IN  (SomeSender /\ Terminal(call) /\ ~sendFailed) =>
                /\ call.pc = "failed" => call.result.error.name # "HTTPError"
                /\ \A k \in CallsOf(call, {"parse", "handle", "refine", "cors"}) :
                       ThrewHTTPError(call.calls[k]) =>
                           \E m \in CallsOf(call, {"send"}) :
                               /\ m > k
                               /\ call.calls[m].response = call.calls[k].outcome.error.response

(***************************************************************************)
(* C3.  Within one incoming() call the sender is invoked at most once, and *)
(* a failure it raises is the failure incoming() ends with.                *)
(***************************************************************************)
C3_SendNotRetried ==
    \A s \in Slots :
        LET call == rq[s]
        IN  /\ Cardinality(CallsOf(call, {"send"})) <= 1
            /\ \A k \in CallsOf(call, {"send"}) :
                   (Terminal(call) /\ Threw(call.calls[k])) =>
                       call.result = Failed(call.calls[k].outcome.error)

(***************************************************************************)
(* C4.  Once a normalization, handler, refine or CORS operation has raised *)
(* a failure that is not an HTTPError, the sender is not invoked for the   *)
(* request and incoming() ends by throwing that same failure.              *)
(***************************************************************************)
C4_OtherFailurePropagates ==
    \A s \in Slots :
        LET call == rq[s]
        IN  \A k \in CallsOf(call, {"parse", "handle", "refine", "cors"}) :
                ThrewOther(call.calls[k]) =>
                    /\ CallsOf(call, {"send"}) = {}
                    /\ Terminal(call) => call.result = Failed(call.calls[k].outcome.error)

(***************************************************************************)
(* The configuration of the end-to-end example: a sender, one parse        *)
(* operation in all, no refiner and no CORS declaration.                   *)
(***************************************************************************)
Count(reg, n) == {i \in 1..Len(reg) : Len(reg[i].parsers) = n}

OneParserOnly ==
    /\ SomeSender
    /\ Cardinality(Count(registry, 1)) = 1
    /\ Cardinality(Count(registry, 0)) = Len(registry) - 1
    /\ \A i \in 1..Len(registry) :
           /\ registry[i].refiners = <<>>
           /\ registry[i].cors = <<>>
           /\ ~registry[i].http_cors.declared

\* the call has ended, its one parse operation having returned `value`
ParsedTo(call, value) ==
    /\ Terminal(call)
    /\ Cardinality(CallsOf(call, {"parse"})) = 1
    /\ \A k \in CallsOf(call, {"parse"}) :
           ~call.calls[k].async /\ call.calls[k].outcome = Return(value)

\* the handler "getUser" was invoked and, where it returned a response and
\* no send failed, the sender got that response and its output is returned
HandledBy(call, field) ==
    \E h \in CallsOf(call, {"handle"}) :
        /\ call.calls[h].field = field
        /\ call.calls[h].outcome.kind = "return" =>
              \E m \in CallsOf(call, {"send"}) :
                  /\ call.calls[m].response = call.calls[h].outcome.value
                  /\ call.calls[m].request.originalRequest = call.request
                  /\ ~Threw(call.calls[m]) =>
                        call.result = Returned(SenderOutput(
                            call.calls[m].request, call.calls[h].outcome.value))

(***************************************************************************)
(* C5 as stated.  In the end-to-end configuration, when the parse          *)
(* operation sets only path = "/users/42", the handler declared for        *)
(* (GET, "/users/42") is invoked and its response goes unchanged to the    *)
(* sender, whose output is returned.                                       *)
(***************************************************************************)
C5_PathOnlyReachesHandler ==
    \A s \in Slots :
        (OneParserOnly /\ ParsedTo(rq[s], [path |-> PathA])) =>
            HandledBy(rq[s], "getUser")

(***************************************************************************)
(* C5.  In the end-to-end configuration, when the parse operation sets     *)
(* path = "/users/42" and method = "GET", the handler declared for         *)
(* (GET, "/users/42") is invoked and its response goes unchanged to the    *)
(* sender, whose output is returned.                                       *)
(***************************************************************************)
C5_EndToEnd ==
    \A s \in Slots :
        (OneParserOnly /\ ParsedTo(rq[s], [path |-> PathA, method |-> "GET"])) =>
            HandledBy(rq[s], "getUser")

C5_Witness ==
    \E s \in Slots :
        /\ OneParserOnly
        /\ ParsedTo(rq[s], [path |-> PathA, method |-> "GET"])
        /\ rq[s].pc = "returned"
        /\ rq[s].result.value.response = Response(200, "getUser")

(***************************************************************************)
(* C6.  A call invokes at most one handler; the handler invoked is the     *)
(* first field, in declaration order, whose declared (method, path) equals *)
(* the normalized request's; a call past dispatch on the normal route has  *)
(* invoked exactly one; and where no field matches, incoming() fails with  *)
(* HandlerNotFound having invoked no handler, no refiner, no CORS provider *)
(* and no sender.                                                          *)
(***************************************************************************)
Declares(prop, req) == prop.http_method = req.method /\ prop.http_path = req.path

C6_Dispatch ==
    \A s \in Slots :
        LET call == rq[s]
            fields == HandlerFields(call.handlerService)
            handled == CallsOf(call, {"handle"})
            noMatch == \A k \in 1..Len(fields) : ~Declares(fields[k], call.normalizedRequest)
        IN  /\ Cardinality(handled) <= 1
            /\ \A h \in handled :
                   \E k \in 1..Len(fields) :
                       /\ fields[k].field = call.calls[h].field
                       /\ Declares(fields[k], call.calls[h].request)
                       /\ \A m \in 1..(k - 1) : ~Declares(fields[m], call.calls[h].request)
                       /\ call.calls[h].request.method = call.normalizedRequest.method
                       /\ call.calls[h].request.path = call.normalizedRequest.path
            /\ (call.pc \in {"refine", "cors", "send"}
                    \/ (call.pc = "returned" /\ call.err = NoError)) =>
                   Cardinality(handled) = 1
            /\ call.result = Failed(HandlerNotFound) =>
                   noMatch /\ CallsOf(call, {"handle", "refine", "cors", "send"}) = {}
            /\ (call.pc \in {"refine", "cors", "send", "catch", "returned", "failed"}
                    /\ noMatch
                    /\ \A k \in CallsOf(call, {"parse"}) :
                           call.calls[k].async \/ ~Threw(call.calls[k])) =>
                   call.result = Failed(HandlerNotFound)

\* "getUser" invoked where "getUserAgain" declares the same (method, path)
C6_Witness ==
    \E s \in Slots :
        LET call == rq[s]
            fields == HandlerFields(call.handlerService)
        IN  /\ call.pc = "returned"
            /\ call.err = NoError
            /\ \E h \in CallsOf(call, {"handle"}) : call.calls[h].field = "getUser"
            /\ Cardinality({k \in 1..Len(fields) :
                               Declares(fields[k], call.normalizedRequest)}) = 2

(***************************************************************************)
(* C7 as stated.  The sender send() uses is the first entry of the ordered *)
(* list _httpServices whose service exposes a send operation.              *)
(***************************************************************************)
C7_SenderIsFirstOrdered ==
    phase = "ready" =>
        LET exposing == {k \in 1..Len(_httpServices) :
                            HasSender(registry[_httpServices[k].service])}
        IN  IF exposing = {} THEN _sender = 0
            ELSE \E k \in exposing :
                     /\ \A m \in exposing : k <= m
                     /\ _sender = _httpServices[k].service

(***************************************************************************)
(* C8 as stated.  With no service exposing a send operation every call of  *)
(* incoming() ends by failing with NoSenderFound; with one, no call does.  *)
(***************************************************************************)
C8_EveryCallNoSenderFound ==
    \A s \in Slots :
        /\ (~SomeSender /\ Terminal(rq[s])) => rq[s].result = Failed(NoSenderFound)
        /\ SomeSender => rq[s].result # Failed(NoSenderFound)

(***************************************************************************)
(* C8.  With no service exposing a send operation no call of incoming()    *)
(* returns and no sender is invoked: a call that reaches the send, on the  *)
(* normal route or on the HTTPError route, fails with NoSenderFound, and a *)
(* call that fails before fails with HandlerNotFound or with the failure,  *)
(* not an HTTPError, that one of its operations raised.  With a service    *)
(* exposing a send operation no call fails with NoSenderFound.             *)
(***************************************************************************)
C8_NoSenderFound ==
    \A s \in Slots :
        LET call == rq[s]
            raised == {call.calls[k].outcome.error :
                          k \in {m \in 1..Len(call.calls) : ThrewOther(call.calls[m])}}
        IN  /\ ~SomeSender =>
                  /\ call.pc # "returned"
                  /\ CallsOf(call, {"send"}) = {}
                  /\ call.pc = "failed" =>
                        \/ call.result = Failed(NoSenderFound)
                        \/ call.result = Failed(HandlerNotFound)
                        \/ call.result.error \in raised
                  /\ (call.pc = "failed" /\ call.err # NoError) =>
                        call.result = Failed(NoSenderFound)
                  /\ (call.pc = "failed" /\ raised = {}
                          /\ CallsOf(call, {"handle"}) # {}) =>
                        call.result = Failed(NoSenderFound)
            /\ SomeSender =>
                  /\ call.result # Failed(NoSenderFound)
                  /\ phase = "ready" => _sender # 0

\* the HTTPError route ending in NoSenderFound
C8_Witness ==
    \E s \in Slots :
        /\ ~SomeSender
        /\ rq[s].pc = "failed"
        /\ rq[s].err # NoError
        /\ rq[s].result = Failed(NoSenderFound)

(***************************************************************************)
(* C9 as stated.  In the ordered list every entry without a matcher        *)
(* precedes every entry with one, and of two entries of the same matcher   *)
(* group the one with the strictly higher declared priority precedes the   *)
(* other.                                                                  *)
(***************************************************************************)
C9_Ordered ==
    phase = "ready" =>
        \A i, j \in 1..Len(registry) :
            LET a == registry[i]
                b == registry[j]
            IN  /\ (a.http_matcher.type = "null" /\ b.http_matcher.type # "null") =>
                       Position(i) < Position(j)
                /\ (SameGroup(a, b) /\ GreaterThan(a.priority, b.priority)) =>
                       Position(i) < Position(j)

C11_AbsentIsLowest ==
    phase = "ready" =>
        \A i, j \in 1..Len(registry) :
            (SameGroup(registry[i], registry[j])
                /\ registry[i].priority.def /\ ~registry[j].priority.def) =>
                Position(i) < Position(j)

(***************************************************************************)
(* The parse invocations whose returned record carries a path and is seen  *)
(* by the normalization loop, and the first of them: the one that sets the *)
(* path while it is unset.                                                 *)
(***************************************************************************)
PathSetters(call) ==
    {k \in CallsOf(call, {"parse"}) :
        /\ ~call.calls[k].async
        /\ call.calls[k].outcome.kind = "return"
        /\ "path" \in DOMAIN call.calls[k].outcome.value}

FirstSetter(call) == CHOOSE k \in PathSetters(call) : \A m \in PathSetters(call) : k <= m

Used(call, service) ==
    \E u \in 1..Len(call.usedAssignees) : call.usedAssignees[u].service = service

(***************************************************************************)
(* C12 as stated.  Once a normalization operation has set the path, every  *)
(* candidate later in the ordered list whose matcher does not match that   *)
(* path is not used: it is no member of usedAssignees and none of its      *)
(* parse, refine or CORS operations is invoked for the request.            *)
(***************************************************************************)
C12_Gating ==
    \A s \in Slots :
        LET call == rq[s]
        IN  PathSetters(call) # {} =>
                LET first == call.calls[FirstSetter(call)]
                IN  \A q \in 1..Len(_httpServices) :
                        (q > Position(first.service)
                            /\ ~matches(first.outcome.value.path, _httpServices[q].matcher)) =>
                            /\ ~Used(call, _httpServices[q].service)
                            /\ \A k \in CallsOf(call, {"parse", "refine", "cors"}) :
                                   call.calls[k].service # _httpServices[q].service

(***************************************************************************)
(* C13 as stated.  The path the normalization loop filters the remaining   *)
(* candidates with is the one set first: the path of a record returned     *)
(* later does not replace it.                                              *)
(***************************************************************************)
C13_PathStable ==
    \A s \in Slots :
        LET call == rq[s]
        IN  PathSetters(call) # {} =>
                call.path = call.calls[FirstSetter(call)].outcome.value.path

(***************************************************************************)
(* C14 as stated.  When normalization is over, each field of the running   *)
(* request holds the value of the last invoked parse operation whose       *)
(* returned record contained the field, and the value of the empty request *)
(* where no operation returned the field.                                  *)
(***************************************************************************)
Returning(call, f) ==
    {k \in CallsOf(call, {"parse"}) :
        call.calls[k].outcome.kind = "return" /\ f \in DOMAIN call.calls[k].outcome.value}

C14_Merge ==
    \A s \in Slots :
        LET call == rq[s]
        IN  call.pc = "dispatch" =>
                \A f \in DOMAIN call.normalizedRequest :
                    call.normalizedRequest[f] =
                        IF Returning(call, f) = {} THEN _emptyRequest(call.request)[f]
                        ELSE LET last == CHOOSE k \in Returning(call, f) :
                                             \A m \in Returning(call, f) : m <= k
                             IN  call.calls[last].outcome.value[f]

(***************************************************************************)
(* C15 as stated.  The handler receives, in the position of every          *)
(* parameter declared with an injection kind, the value of the matching    *)
(* field of the normalized request, whatever that value is (undefined and  *)
(* the empty string included), and in every other position the argument    *)
(* of the original call.                                                   *)
(***************************************************************************)
C15_Injection ==
    \A s \in Slots :
        LET call == rq[s]
        IN  \A h \in CallsOf(call, {"handle"}) :
                LET made == call.calls[h]
                    params == Params(made.field)
                IN  \A i \in 1..Len(params) :
                        made.args[i] =
                            IF params[i] # "" THEN _getParam(made.request, params[i])
                            ELSE ArgAt(<<Object(made.request)>>, i)

(***************************************************************************)
(* The refine invocations of a call in the order they were made, and the   *)
(* refine operations the used services declare for a path, in the order of *)
(* usedAssignees and, within a service, of declaration.                    *)
(***************************************************************************)
RefineCalls(call) == SelectSeq(call.calls, LAMBDA c : c.role = "refine")

RECURSIVE DeclaredRefiners(_, _)
DeclaredRefiners(assignees, path) ==
    IF assignees = <<>> THEN <<>>
    ELSE LET service == Head(assignees).service
             applicable == SelectSeq(registry[service].refiners,
                                     LAMBDA m : matches(path, m.http_matcher))
         IN  [k \in 1..Len(applicable) |-> <<service, applicable[k].field>>]
                 \o DeclaredRefiners(Tail(assignees), path)

\* the response an awaited invocation leaves behind
Produced(c) == IF c.outcome.kind = "return" THEN c.outcome.value ELSE NoResponse

NormalSend(call, m) ==
    /\ call.calls[m].role = "send"
    /\ \A k \in 1..(m - 1) :
           Threw(call.calls[k]) => (call.calls[k].role = "parse" /\ call.calls[k].async)

NormalizedHeaders(call) ==
    LET h == CHOOSE k \in CallsOf(call, {"handle"}) : TRUE
    IN  call.calls[h].request.headers

AccessControl ==
    {"Access-Control-Allow-Origin", "Access-Control-Allow-Headers",
     "Access-Control-Allow-Methods", "Access-Control-Expose-Headers",
     "Access-Control-Max-Age", "Access-Control-Allow-Credentials"}

(***************************************************************************)
(* C17 as stated.  When a non-empty CORS policy was collected and the      *)
(* request has an Origin header, the response handed to the sender carries *)
(* the six Access-Control-* headers with their values, and the headers of  *)
(* the request handed to it are those normalization produced.              *)
(***************************************************************************)
C17_CorsOnResponse ==
    \A s \in Slots :
        LET call == rq[s]
        IN  \A m \in 1..Len(call.calls) :
                (NormalSend(call, m) /\ call.cors.set /\ call.cors.options # EmptyMap
                    /\ Get(NormalizedHeaders(call), "Origin") # "") =>
                    LET sent == call.calls[m]
                        six == SetCorsHeaders(EmptyMap, Get(NormalizedHeaders(call), "Origin"),
                                              sent.request.method, call.cors.options)
                    IN  /\ \A name \in AccessControl :
                               /\ name \in DOMAIN sent.response.headers
                               /\ sent.response.headers[name] = six[name]
                        /\ sent.request.headers = NormalizedHeaders(call)

(***************************************************************************)
(* C18.  Where the normalized request has no Origin header, no             *)
(* Access-Control-* header is ever in the headers of the running request   *)
(* or of the running response, whatever policy was collected, and the      *)
(* sender is handed the request headers normalization produced and a       *)
(* response without such a header.                                         *)
(***************************************************************************)
C18_NoOriginNoHeaders ==
    \A s \in Slots :
        LET call == rq[s]
        IN  Get(call.normalizedRequest.headers, "Origin") = "" =>
                /\ AccessControl \cap DOMAIN call.normalizedRequest.headers = {}
                /\ AccessControl \cap DOMAIN call.normalizedResponse.headers = {}
                /\ \A m \in 1..Len(call.calls) :
                       NormalSend(call, m) =>
                           /\ call.calls[m].request.headers = NormalizedHeaders(call)
                           /\ AccessControl \cap DOMAIN call.calls[m].request.headers = {}
                           /\ AccessControl \cap DOMAIN call.calls[m].response.headers = {}

\* a policy was collected, the request names no origin, the response is sent
C18_Witness ==
    \E s \in Slots :
        LET call == rq[s]
        IN  /\ call.pc = "returned"
            /\ call.err = NoError
            /\ call.cors.set
            /\ call.cors.options # EmptyMap
            /\ Get(call.normalizedRequest.headers, "Origin") = ""
            /\ \E m \in 1..Len(call.calls) : NormalSend(call, m)

(***************************************************************************)
(* The contributors to the CORS policy of a call, in the order of          *)
(* usedAssignees: a service's class-level policy, then what each of its    *)
(* providers invoked for the call returned.                                *)
(***************************************************************************)
PolicyKeys == {"origins", "allowHeaders", "exposeHeaders", "maxAge", "allowCredentials"}

RECURSIVE Contributions(_, _)
Contributions(assignees, call) ==
    IF assignees = <<>> THEN <<>>
    ELSE LET service == Head(assignees).service
             provided == SelectSeq(call.calls,
                                   LAMBDA c : c.role = "cors" /\ c.service = service)
         IN  (IF registry[service].http_cors.declared
              THEN <<registry[service].http_cors.options>> ELSE <<>>)
                 \o [k \in 1..Len(provided) |->
                        IF provided[k].outcome.kind = "return"
                        THEN provided[k].outcome.value ELSE EmptyMap]
                 \o Contributions(Tail(assignees), call)

\* the value of the last contributor that defines the key, {} when none does
LastDefined(policies, key) ==
    LET defining == {k \in 1..Len(policies) : Option(policies[k], key) # {}}
    IN  IF defining = {} THEN {}
        ELSE policies[CHOOSE k \in defining : \A m \in defining : m <= k][key]

(***************************************************************************)
(* C19.  When the CORS policies have been collected, each field of the     *)
(* collected policy has the value of the last contributor, in the order    *)
(* of usedAssignees with the class-level policy before the providers, that *)
(* defines the field; a contributor leaving the field undefined changes    *)
(* nothing, and a field no contributor defines is absent.                  *)
(***************************************************************************)
C19_CorsMerge ==
    \A s \in Slots :
        LET call == rq[s]
            policies == Contributions(call.usedAssignees, call)
        IN  (call.pc = "send" \/ (call.pc = "returned" /\ call.err = NoError)) =>
                /\ call.cors.set = (policies # <<>>)
                /\ \A key \in PolicyKeys :
                       Option(call.cors.options, key) = LastDefined(policies, key)
                /\ DOMAIN call.cors.options =
                       {key \in PolicyKeys : LastDefined(policies, key) # {}}

\* {allowCredentials: false}, then a provider's {allowCredentials: true,
\* maxAge: 120}, then a later service's {maxAge: 60}
C19_Witness ==
    \E s \in Slots :
        LET call == rq[s]
            policies == Contributions(call.usedAssignees, call)
        IN  /\ call.pc = "send"
            /\ Len(policies) = 3
            /\ policies[1] = [allowCredentials |-> {FALSE}]
            /\ policies[2] = [allowCredentials |-> {TRUE}, maxAge |-> {120}]
            /\ call.cors.options = [allowCredentials |-> {TRUE}, maxAge |-> {60}]

(***************************************************************************)
(* Matcher specification: matches(path, matcher), module.ts 65-71, called  *)
(* again and again on one path and one matcher, and on the items of the    *)
(* matcher when it is a list.  A RegExp is an object: one created with the *)
(* g flag keeps in lastIndex where its last test() ended, and its next     *)
(* test() starts there.  rq[s] is then                                     *)
(*   path, matcher   the arguments                                         *)
(*   lastIndex       lastIndex of the RegExp at each place of the matcher: *)
(*                   0 for the matcher itself, k for its k-th item         *)
(*   log             the calls made: of = 0 for matches(path, matcher),    *)
(*                   of = k for matches(path, matcher[k]), and the result  *)
(***************************************************************************)
MaxItems == 2
MaxCalls == 3

MatchGlobal == Leaf("regexp/g", {PathB})
MatchFunction == Leaf("function", {PathA})

MatcherLeaves == {MatchA, MatchB, MatchGlobal, MatchFunction}

HTTPMatcherCheck ==
    {NoMatcher} \cup MatcherLeaves
        \cup {ArrayOf(items) : items \in SeqsUpTo(MatcherLeaves, MaxItems)}

\* RegExp.prototype.test for a pattern anchored at both ends of the path
test(regexp, path, lastIndex) ==
    IF regexp.type # "regexp/g"
    THEN [result |-> path \in regexp.accepts, lastIndex |-> lastIndex]
    ELSE IF lastIndex = 0 /\ path \in regexp.accepts
    THEN [result |-> TRUE, lastIndex |-> Len(path)]
    ELSE [result |-> FALSE, lastIndex |-> 0]

\* the last three branches of matches, for the matcher at place `at`
matchesLeaf(path, matcher, at, lastIndex) ==
    IF matcher.type \in {"regexp", "regexp/g"}
    THEN LET tested == test(matcher, path, lastIndex[at])
         IN  [result |-> tested.result,
              lastIndex |-> [lastIndex EXCEPT ![at] = tested.lastIndex]]
    ELSE [result |-> path \in matcher.accepts, lastIndex |-> lastIndex]

\* matcher.some((m) => this.matches(path, m)), from the k-th item on
RECURSIVE some(_, _, _, _)
some(path, items, k, lastIndex) ==
    IF k > Len(items) THEN [result |-> FALSE, lastIndex |-> lastIndex]
    ELSE LET item == matchesLeaf(path, items[k], k, lastIndex)
         IN  IF item.result THEN item
             ELSE some(path, items, k + 1, item.lastIndex)

\* matches(path, matcher) with the RegExp objects in the state lastIndex
matchesAt(path, matcher, lastIndex) ==
    IF matcher.type = "null" THEN [result |-> TRUE, lastIndex |-> lastIndex]
    ELSE IF matcher.type = "array" THEN some(path, matcher.items, 1, lastIndex)
    ELSE matchesLeaf(path, matcher, 0, lastIndex)

Matching0(path, matcher) ==
    [pc |-> "matching", path |-> path, matcher |-> matcher,
     lastIndex |-> [at \in 0..MaxItems |-> 0], log |-> <<>>]

InitMatch ==
    /\ registry = <<>>
    /\ phase = "matching"
    /\ _httpServices = <<>>
    /\ _sender = 0
    /\ \E path \in Paths, matcher \in HTTPMatcherCheck :
           rq = [s \in Slots |-> Matching0(path, matcher)]

\* this.matches(path, matcher)
MatchesCall(s) ==
    LET e == rq[s]
        made == matchesAt(e.path, e.matcher, e.lastIndex)
    IN  /\ Len(e.log) < MaxCalls
        /\ rq' = [rq EXCEPT ![s] =
                     [e EXCEPT !.lastIndex = made.lastIndex,
                               !.log = Append(e.log, [of |-> 0, result |-> made.result])]]
        /\ UNCHANGED <<registry, phase, _httpServices, _sender>>

\* this.matches(path, matcher[k])
MatchesItem(s, k) ==
    LET e == rq[s]
    IN  /\ Len(e.log) < MaxCalls
        /\ e.matcher.type = "array"
        /\ k \in 1..Len(e.matcher.items)
        /\ LET made == matchesLeaf(e.path, e.matcher.items[k], k, e.lastIndex)
           IN  rq' = [rq EXCEPT ![s] =
                         [e EXCEPT !.lastIndex = made.lastIndex,
                                   !.log = Append(e.log, [of |-> k, result |-> made.result])]]
        /\ UNCHANGED <<registry, phase, _httpServices, _sender>>

NextMatch ==
    \E s \in Slots :
        \/ MatchesCall(s)
        \/ \E k \in 1..MaxItems : MatchesItem(s, k)

SpecMatch == InitMatch /\ [][NextMatch]_vars

(***************************************************************************)
(* C20 as stated.  matches(p, none) is true, matches(p, []) is false,      *)
(* matches(p, [m1, ..., mn]) is the disjunction of the matches(p, mi), and *)
(* every call with the same path and matcher gives the same result.        *)
(***************************************************************************)
C20_MatcherEngine ==
    \A s \in Slots :
        LET e == rq[s]
            calls == 1..Len(e.log)
            whole == {c \in calls : e.log[c].of = 0}
        IN  /\ e.matcher = NoMatcher => \A c \in whole : e.log[c].result
            /\ e.matcher = ArrayOf(<<>>) => \A c \in whole : ~e.log[c].result
            /\ \A c, d \in calls :
                   e.log[c].of = e.log[d].of => e.log[c].result = e.log[d].result
            /\ e.matcher.type = "array" =>
                   \A c \in whole :
                       (\A k \in 1..Len(e.matcher.items) : \E d \in calls : e.log[d].of = k) =>
                           e.log[c].result = (\E d \in calls : e.log[d].of # 0 /\ e.log[d].result)

(***************************************************************************)
(* C21 as stated.  Within one call of incoming() every operation has       *)
(* completed, and its result has been applied to the running request or    *)
(* response, before the next operation starts: the operation that follows  *)
(* a parse operation which returned a record is given the request merged   *)
(* with that record, the refiner that follows a handler or a refiner is    *)
(* given the response it returned, and an operation that failed is         *)
(* followed by nothing but the send of the error response.  Asynchronous   *)
(* parse operations are included.                                          *)
(***************************************************************************)
C21_Sequential ==
    \A s \in Slots :
        LET call == rq[s]
        IN  \A k \in 1..(Len(call.calls) - 1) :
                LET c == call.calls[k]
                    next == call.calls[k + 1]
                IN  /\ (c.role = "parse" /\ c.outcome.kind = "return") =>
                            next.request = Spread(c.request, c.outcome.value)
                    /\ (c.role \in {"handle", "refine"} /\ c.outcome.kind = "return"
                            /\ next.role = "refine") =>
                            next.response = c.outcome.value
                    /\ Threw(c) => next.role = "send"

(***************************************************************************)
(* Shared-state specification: several calls of incoming() in progress at  *)
(* once, each standing at one of its await points, over registries whose   *)
(* services may carry a RegExp matcher created with the g flag.  The cache *)
(* entry holds the matcher object itself (module.ts 49), so the lastIndex  *)
(* that test() leaves in it (module.ts 70) is state of the candidate list, *)
(* read and written by the loop head of every call (module.ts 108).        *)
(***************************************************************************)
\* the calls of incoming() that can be in progress together
Callers == {"first", "second"}

NoLastIndex == [at \in 0..MaxItems |-> 0]

\* lastIndex of the RegExp objects of a matcher
LastIndex(matcher) ==
    IF "lastIndex" \in DOMAIN matcher THEN matcher.lastIndex ELSE NoLastIndex

\* the matcher object after its RegExp objects were left at lastIndex
Tested(matcher, lastIndex) ==
    IF lastIndex = NoLastIndex
    THEN [type |-> matcher.type, accepts |-> matcher.accepts, items |-> matcher.items]
    ELSE [type |-> matcher.type, accepts |-> matcher.accepts, items |-> matcher.items,
          lastIndex |-> lastIndex]

\* a refiner on a service whose matcher is /^\/admin$/g
Audit ==
    Service("Audit", MatchGlobal, NoPriority, NoMethod, <<>>,
            <<Method("audit", FALSE, NoMatcher, {Return(Response(200, "audited"))})>>,
            NoCors, <<>>)

\* sets the route to PathB
AdminRouter ==
    Service("AdminRouter", NoMatcher, NoPriority, NoMethod,
            <<Method("route", FALSE, NoMatcher,
                     {Return([path |-> PathB, method |-> "GET"])})>>,
            <<>>, NoCors, <<>>)

\* a sender that succeeds or answers with an HTTPError
Wire ==
    Service("Wire", NoMatcher, NoPriority,
            Method("send", FALSE, NoMatcher,
                   {Return(EmptyMap), Throw(HTTPInternalServerError)}),
            <<>>, <<>>, NoCors, <<>>)

SharedRegistries == {<<AdminRouter, Audit, Wire>>, <<Wire, AdminRouter, Audit>>,
                     <<AdminRouter, Audit>>, <<AdminRouter, Wire>>}

InitShared ==
    /\ registry \in SharedRegistries
    /\ phase = "constructed"
    /\ _httpServices = <<>>
    /\ _sender = 0
    /\ rq = [s \in Callers |-> IdleCall]

\* module.ts 106-110, with the matcher objects of the candidate list
SharedNextAssignee(s) ==
    LET call == rq[s]
        assignee == _httpServices[call.i]
        made == matchesAt(call.path, assignee.matcher, LastIndex(assignee.matcher))
    IN  /\ call.pc = "normalize"
        /\ call.j = 0
        /\ IF call.i > Len(_httpServices)
           THEN /\ rq' = [rq EXCEPT ![s] = [call EXCEPT !.pc = "dispatch"]]
                /\ UNCHANGED _httpServices
           ELSE IF call.path = UNDEF
           THEN /\ rq' = [rq EXCEPT ![s] =
                        [call EXCEPT !.usedAssignees = Append(call.usedAssignees, assignee),
                                     !.j = 1]]
                /\ UNCHANGED _httpServices
           ELSE /\ _httpServices' =
                       [_httpServices EXCEPT
                           ![call.i].matcher = Tested(assignee.matcher, made.lastIndex)]
                /\ rq' = [rq EXCEPT ![s] =
                        IF ~made.result THEN [call EXCEPT !.i = call.i + 1]
                        ELSE [call EXCEPT
                                 !.usedAssignees = Append(call.usedAssignees, assignee),
                                 !.j = 1]]
        /\ UNCHANGED <<registry, phase, _sender>>

SharedStep(s) ==
    \/ \E handlerService \in HandlerServices, request \in RawRequests :
           Incoming(s, handlerService, request)
    \/ SharedNextAssignee(s)
    \/ NextParser(s)
    \/ Dispatch(s)
    \/ Refine(s)
    \/ CollectCors(s)
    \/ Send(s)
    \/ CatchSend(s)
    \/ Settle(s)

NextShared ==
    \/ CollectHttpServices
    \/ \E s \in Callers : SharedStep(s)

SpecShared == InitShared /\ [][NextShared]_vars

\* what a call was given: its raw request and what its parse operations
\* returned
Given(call) ==
    [request |-> call.request,
     parsed |-> SelectSeq(call.calls, LAMBDA c : c.role = "parse")]

\* the services of usedAssignees, in order
UsedServices(call) == [u \in 1..Len(call.usedAssignees) |-> call.usedAssignees[u].service]

(***************************************************************************)
(* C22 as stated.  However the calls of incoming() interleave, no call     *)
(* changes the ordered candidate list or the cached sender, and two calls  *)
(* that were given the same raw request and the same parse results have,   *)
(* after normalization, the same path, the same normalized request and the *)
(* same used services.                                                     *)
(***************************************************************************)
C22_Isolation ==
    /\ phase = "ready" =>
           /\ _httpServices =
                  ArraySort([i \in 1..Len(registry) |-> AssigneeCacheEntry(registry, i)])
           /\ _sender = SenderDiscovered(registry)
    /\ \A s, t \in Callers :
           (/\ rq[s].pc = "dispatch"
            /\ rq[t].pc = "dispatch"
            /\ Given(rq[s]) = Given(rq[t])) =>
               /\ rq[s].path = rq[t].path
               /\ rq[s].normalizedRequest = rq[t].normalizedRequest
               /\ UsedServices(rq[s]) = UsedServices(rq[t])

(***************************************************************************)
(* @Receive: decorators.ts 145-147 adds the method under                   *)
(* HTTP_FIELD.REQUEST_RECEIVE, a key HTTP_FIELD (const.ts 1-6) does not    *)
(* have.  The methods so declared, per service: Router declares one.  The  *)
(* normalization loop (module.ts 112) asks for the REQUEST_PARSER methods  *)
(* only, and no other place of the module asks for methods at all but the  *)
(* refiners, the CORS members and the sender.                              *)
(***************************************************************************)
REQUEST_RECEIVE(service) ==
    IF service.name = "Router"
    THEN <<Method("open", FALSE, NoMatcher, {Return([method |-> "GET"]), Void})>>
    ELSE <<>>

(***************************************************************************)
(* C23 as stated.  For every used candidate whose parse operations have    *)
(* begun or whose turn in normalization is over, each of its declared      *)
(* receive operations has been invoked, in declaration order, and before   *)
(* every parse operation of that candidate.                                *)
(***************************************************************************)
C23_ReceiveFirst ==
    \A s \in Slots :
        LET call == rq[s]
            done(u) == \/ call.pc \notin {"idle", "normalize"}
                       \/ call.i > u
                       \/ (call.i = u /\ call.j > 1)
        IN  \A u \in 1..Len(call.usedAssignees) :
                LET service == call.usedAssignees[u].service
                    declared == REQUEST_RECEIVE(registry[service])
                    received == SelectSeq(call.calls,
                                    LAMBDA c : c.role = "receive" /\ c.service = service)
                IN  (call.pc # "idle" /\ done(u)) =>
                        /\ Len(received) = Len(declared)
                        /\ \A k \in 1..Len(declared) : received[k].field = declared[k].field
                        /\ \A a \in CallsOf(call, {"receive"}), b \in CallsOf(call, {"parse"}) :
                               (call.calls[a].service = service
                                   /\ call.calls[b].service = service) => a < b

\* the stage an invocation belongs to
Stage(c) ==
    CASE c.role \in {"receive", "parse"} -> 1
      [] c.role = "handle" -> 2
      [] c.role = "refine" -> 3
      [] c.role = "cors" -> 4
      [] c.role = "send" -> 5

\* a normalization, handler, refine or CORS operation raised into the call
RaisedBeforeSend(call) ==
    \E k \in CallsOf(call, {"parse", "handle", "refine", "cors"}) :
        Threw(call.calls[k]) /\ ~call.calls[k].async

(***************************************************************************)
(* C24 as stated.  In a call of incoming() that returns, and in which no   *)
(* normalization, handler, refine or CORS operation raised, the            *)
(* invocations are in stage order (normalization, handler, refine, CORS,   *)
(* send), with exactly one handler invocation and exactly one sender       *)
(* invocation, the last of all.                                            *)
(***************************************************************************)
C24_StageOrder ==
    \A s \in Slots :
        LET call == rq[s]
        IN  (call.pc = "returned" /\ ~RaisedBeforeSend(call)) =>
                /\ \A a, b \in 1..Len(call.calls) :
                       a < b => Stage(call.calls[a]) <= Stage(call.calls[b])
                /\ Cardinality(CallsOf(call, {"handle"})) = 1
                /\ Cardinality(CallsOf(call, {"send"})) = 1

\* the parse method of the service registered i-th that is named field
Parser(i, field) ==
    LET methods == registry[i].parsers
    IN  methods[CHOOSE k \in 1..Len(methods) : methods[k].field = field]

(***************************************************************************)
(* C25 as stated.  Every parse operation that is invoked has an own        *)
(* matcher that matches the path of the running request it is given, also  *)
(* while no operation has set the path and the request holds the empty     *)
(* default; a candidate whose operation was skipped stays in               *)
(* usedAssignees and its operations without an own matcher are invoked.    *)
(***************************************************************************)
C25_FieldMatcher ==
    \A s \in Slots :
        LET call == rq[s]
        IN  /\ \A k \in CallsOf(call, {"parse"}) :
                   LET c == call.calls[k]
                   IN  matches(c.request.path, Parser(c.service, c.field).http_matcher)
            /\ call.pc = "dispatch" =>
                   \A u \in 1..Len(call.usedAssignees) :
                       LET service == call.usedAssignees[u].service
                           methods == registry[service].parsers
                       IN  \A j \in 1..Len(methods) :
                               methods[j].http_matcher = NoMatcher =>
                                   \E k \in CallsOf(call, {"parse"}) :
                                       /\ call.calls[k].service = service
                                       /\ call.calls[k].field = methods[j].field

\* no contributor to the policy of the call defines a field
NothingContributed(call) ==
    LET policies == Contributions(call.usedAssignees, call)
    IN  \A k \in 1..Len(policies), key \in PolicyKeys : Option(policies[k], key) = {}

(***************************************************************************)
(* C26 as stated.  After the CORS stage of a call in which no used service *)
(* declares a class-level policy and every invoked provider returned       *)
(* nothing or a policy without a defined field, no Access-Control-* header *)
(* is in the headers of the running request or of the running response,    *)
(* whether or not the request has an Origin header.                        *)
(***************************************************************************)
C26_EmptyPolicyNoHeaders ==
    \A s \in Slots :
        LET call == rq[s]
        IN  (call.pc = "send" /\ NothingContributed(call)) =>
                /\ AccessControl \cap DOMAIN call.normalizedRequest.headers = {}
                /\ AccessControl \cap DOMAIN call.normalizedResponse.headers = {}

(***************************************************************************)
(* C27 as stated.  Once normalization is over, every member of             *)
(* usedAssignees, the services handed to the refinement chain and to CORS  *)
(* collection, has a service-level matcher that matches the path of the    *)
(* normalized request.                                                     *)
(***************************************************************************)
C27_UsedMatchFinalPath ==
    \A s \in Slots :
        LET call == rq[s]
        IN  call.pc \in {"refine", "cors", "send"} =>
                \A u \in 1..Len(call.usedAssignees) :
                    matches(call.normalizedRequest.path, call.usedAssignees[u].matcher)

\* the CORS members of the used services whose own matcher matches the path
RECURSIVE DeclaredProviders(_, _)
DeclaredProviders(assignees, path) ==
    IF assignees = <<>> THEN <<>>
    ELSE LET service == Head(assignees).service
             applicable == SelectSeq(registry[service].cors,
                                     LAMBDA m : matches(path, m.http_matcher))
         IN  [k \in 1..Len(applicable) |-> <<service, applicable[k].field>>]
                 \o DeclaredProviders(Tail(assignees), path)

\* the invocations of a role, as <<service, field>>
Invoked(call, role) ==
    LET made == SelectSeq(call.calls, LAMBDA c : c.role = role)
    IN  [k \in 1..Len(made) |-> <<made[k].service, made[k].field>>]

\* normalization is over, the matching handler was invoked once, and so
\* were all applicable refiners and CORS providers
WholePipeline(call) ==
    LET fields == HandlerFields(call.handlerService)
        path == call.normalizedRequest.path
    IN  /\ call.i > Len(call.usedAssignees)
        /\ HandlerProp(fields, call.normalizedRequest) # 0
        /\ Invoked(call, "handle") =
               <<<<0, fields[HandlerProp(fields, call.normalizedRequest)].field>>>>
        /\ Invoked(call, "refine") = DeclaredRefiners(call.usedAssignees, path)
        /\ Invoked(call, "cors") = DeclaredProviders(call.usedAssignees, path)

(***************************************************************************)
(* C28 as stated.  With no service exposing a send operation, a call of    *)
(* incoming() that fails with NoSenderFound has gone through the whole     *)
(* pipeline before: normalization, the matching handler, all applicable    *)
(* refiners and all applicable CORS providers.                             *)
(***************************************************************************)
C28_OnlyAfterWholePipeline ==
    \A s \in Slots :
        (~SomeSender /\ rq[s].result = Failed(NoSenderFound)) => WholePipeline(rq[s])

(***************************************************************************)
(* C28.  With no service exposing a send operation, NoSenderFound is       *)
(* raised by send() only, never before: a call that fails with it either   *)
(* reached the send on the normal route, after normalization, the matching *)
(* handler and all applicable refiners and CORS providers, or was sending  *)
(* the response of an HTTPError, and then the operation that raised this   *)
(* HTTPError is the last one invoked.                                      *)
(***************************************************************************)
C28_NoSenderFoundAtSend ==
    \A s \in Slots :
        LET call == rq[s]
        IN  ~SomeSender =>
                /\ call.pc \in {"normalize", "dispatch", "refine", "cors", "send", "catch"} =>
                       call.result = NoResult
                /\ (call.result = Failed(NoSenderFound) /\ call.err = NoError) =>
                       WholePipeline(call)
                /\ (call.result = Failed(NoSenderFound) /\ call.err # NoError) =>
                       /\ call.calls # <<>>
                       /\ LET last == call.calls[Len(call.calls)]
                          IN  /\ ~last.async
                              /\ last.role \in {"parse", "handle", "refine", "cors"}
                              /\ last.outcome = Throw(call.err)

\* NoSenderFound on the normal route, after a handler, a refiner and a CORS
\* provider were invoked
C28_Witness ==
    \E s \in Slots :
        LET call == rq[s]
        IN  /\ ~SomeSender
            /\ call.result = Failed(NoSenderFound)
            /\ call.err = NoError
            /\ CallsOf(call, {"handle"}) # {}
            /\ CallsOf(call, {"refine"}) # {}
            /\ CallsOf(call, {"cors"}) # {}

\* the service as it was declared and registered
Declared(service) == CHOOSE kind \in ServiceKinds : kind.name = service.name

(***************************************************************************)
(* C29.  Whatever calls of incoming() were made, the class-level CORS      *)
(* policy in the shadow of every service has the fields and values it was  *)
(* registered with, and the object a call accumulates its policy in is one *)
(* of its own, never the policy object of a service: the policy collected  *)
(* for a call starts from nothing earlier calls left behind.               *)
(***************************************************************************)
C29_StaticPolicyKept ==
    /\ \A i \in 1..Len(registry) : registry[i].http_cors = Declared(registry[i]).http_cors
    /\ \A s \in Slots : rq[s].cors.object = 0

\* after the CORS stage: the class-level policy {allowCredentials: false} of
\* a service and then what its provider returned, allowCredentials: true,
\* were merged, and the class-level policy still says false
C29_Witness ==
    \E s \in Slots :
        LET call == rq[s]
        IN  /\ call.pc = "send"
            /\ call.cors.options = [allowCredentials |-> {TRUE}, maxAge |-> {120}]
            /\ \E k \in CallsOf(call, {"cors"}) :
                   LET c == call.calls[k]
                   IN  /\ registry[c.service].http_cors.options = [allowCredentials |-> {FALSE}]
                       /\ c.outcome.kind = "return"
                       /\ Option(c.outcome.value, "allowCredentials") = {TRUE}

====
